---- MODULE Spec2Model ----
(***************************************************************************)
(* A model of the riscv-emu system bus (src/src/bus/bus_fu540.rs), of the  *)
(* emulator's run loop (src/src/emulator.rs) and of the compressed         *)
(* instruction decompressor (src/src/cpu/cpu_instruction_comp.rs).         *)
(*                                                                         *)
(* Representation.  TLC's integers are 32-bit signed, the program's are up *)
(* to 64-bit unsigned:                                                     *)
(*  - a physical address is a pair <<hi, lo>> of 16-bit limbs, the address *)
(*    hi * 2^16 + lo.  The model's addresses are below 2^32; every larger  *)
(*    u64 address takes the same branch as 0xFFFF_FFFF (it is >= the DRAM  *)
(*    base) and no arithmetic on it can wrap (addr - DRAM_ADDRESS_START).  *)
(*  - a device or DRAM offset is an integer (it is below 2^31 here).       *)
(*  - a data value of N bits is the sequence of its N/8 bytes, least       *)
(*    significant first, so that (data >> 8k) & 0xff is element k+1.       *)
(*  - the devices (Memory, Uart, Clint, Plic, Virtio) are not part of the  *)
(*    modelled sources: a device is represented by the calls the bus makes *)
(*    on it, in order, and by what it answers (an input of the action).    *)
(***************************************************************************)
EXTENDS Integers, Sequences, FiniteSets, TLC

VARIABLES
    clock,      \* BusFu540.clock
    mtime,      \* the timer's counter: the number of timer.tick() calls
    uartIrq,    \* what uart.is_irq() answers now
    virtioIrq,  \* what virtio.is_irq() answers now
    op,         \* the last bus operation: [name, addr, data]
    calls,      \* the device calls the last bus operation made, in order
    result,     \* what the last bus operation returned
    testmode,   \* Emulator.testmode
    tohost,     \* Emulator.tohost: the address of .tohost, 0 when not resolved
    cell,       \* the 32-bit word the guest's memory holds at .tohost
    phase,      \* where the emulator is: "new", "loaded", "running", "returned", "panicked"
    ret,        \* what run() returned
    steps,      \* the number of cpu.tick() calls run() made
    reads,      \* the number of read32_direct(tohost) calls run() made
    xlen,       \* cpu.xlen
    word,       \* the half-word given to instruction_decompress
    form,       \* the compressed form the dispatch selected
    dec         \* what instruction_decompress returned

busVars == <<clock, mtime, uartIrq, virtioIrq, op, calls, result>>

emuVars == <<testmode, tohost, cell, phase, ret, steps, reads>>

decVars == <<xlen, word, form, dec>>

vars == <<busVars, emuVars, decVars>>

----------------------------------------------------------------------------
(* Addresses *)

Addr(hi, lo) == <<hi, lo>>

\* a <= b on u64 addresses
AddrLe(a, b) == a[1] < b[1] \/ (a[1] = b[1] /\ a[2] <= b[2])

\* a - b, for a >= b
AddrSub(a, b) == (a[1] - b[1]) * 65536 + (a[2] - b[2])

\* a + k, for a small integer k (used to name the sampled addresses)
AddrAdd(a, k) == LET t == a[2] + k IN <<a[1] + (t \div 65536), t % 65536>>

TIMER_ADDRESS_START == Addr(\h0200, \h0000)
TIMER_ADDRESS_END == Addr(\h0200, \hFFFF)

INTC_ADDRESS_START == Addr(\h0C00, \h0000)
INTC_ADDRESS_END == Addr(\h0FFF, \hFFFF)

UART_ADDRESS_START == Addr(\h1000, \h0000)
UART_ADDRESS_END == Addr(\h1000, \h0FFF)

VIRTIO_ADDRESS_START == Addr(\h1000, \h1000)
VIRTIO_ADDRESS_END == Addr(\h1000, \h1FFF)

DRAM_ADDRESS_START == Addr(\h8000, \h0000)

MAX_DRAM_SIZE == 1024 * 1024 * 128

\* The exclusive-end variant of a range pattern (start..end instead of start..=end).
InRange_Exclusive(addr, start, end) == AddrLe(start, addr) /\ AddrLe(addr, end) /\ addr # end

\* The match pattern START..=END
InRange(addr, start, end) == AddrLe(start, addr) /\ AddrLe(addr, end)

----------------------------------------------------------------------------
(* Device calls and results *)

Call(dev, o, off, n, val) == [dev |-> dev, op |-> o, off |-> off, n |-> n, val |-> val]

Ok(v) == [kind |-> "ok", val |-> v]
Err == [kind |-> "err", val |-> <<>>]
Fatal == [kind |-> "fatal", val |-> <<>>]

Outcome(cs, r) == [calls |-> cs, result |-> r]

\* _ => Err(()) returning a value instead of the fault.
AccessFault_AsZero == Outcome(<<>>, Ok(<<0>>))

\* The arm _ => Err(()): no device matches.
AccessFault == Outcome(<<>>, Err)

\* The wrong-size arms answering with an access fault instead of a panic.
UnexpectedSizeAccess_AsFault == Outcome(<<>>, Err)

\* panic!("Unexpected size access.")
UnexpectedSizeAccess == Outcome(<<>>, Fatal)

\* Memory::read{8,16,32,64}(offset): n bytes at offset, little-endian; an access
\* that is not within the capacity fails.
DramRead(off, n, resp) ==
    IF off <= MAX_DRAM_SIZE - n
    THEN Outcome(<<Call("dram", "read", off, n, SubSeq(resp, 1, n))>>, Ok(SubSeq(resp, 1, n)))
    ELSE Outcome(<<Call("dram", "read", off, n, <<>>)>>, Fatal)

\* Memory::write{8,16,32,64}(offset, data)
DramWrite(off, n, data) ==
    IF off <= MAX_DRAM_SIZE - n
    THEN Outcome(<<Call("dram", "write", off, n, data)>>, Ok(<<>>))
    ELSE Outcome(<<Call("dram", "write", off, n, data)>>, Fatal)

\* (data >> 8k) & 0xff
ByteAt(data, k) == data[k + 1]

\* data as u32
Low32(data) == SubSeq(data, 1, 4)

\* (data >> 32) & 0xffffffff
High32(data) == SubSeq(data, 5, 8)

\* uart.read(addr_) | uart.read(addr_ + 1) << 8 | ... : n byte reads, operands
\* evaluated left to right; the value is the bytes read, the first lowest.
UartReads(addr_, n, resp) ==
    LET cs == [k \in 1..n |-> Call("uart", "read", addr_ + (k - 1), 1, <<resp[k]>>)]
    IN Outcome(cs, Ok([k \in 1..n |-> cs[k].val[1]]))

\* The bytes issued most significant first.
UartWrites_Descending(addr_, n, data) ==
    Outcome([k \in 1..n |-> Call("uart", "write", addr_ + (k - 1), 1, <<ByteAt(data, n - k)>>)],
            Ok(<<>>))

\* uart.write(addr_, data & 0xff); uart.write(addr_ + 1, (data >> 8) & 0xff); ...
UartWrites(addr_, n, data) ==
    Outcome([k \in 1..n |-> Call("uart", "write", addr_ + (k - 1), 1, <<ByteAt(data, k - 1)>>)],
            Ok(<<>>))

\* One 32-bit read of a 32-bit device.
DevRead32(dev, off, resp) ==
    Outcome(<<Call(dev, "read", off, 4, SubSeq(resp, 1, 4))>>, Ok(SubSeq(resp, 1, 4)))

\* One 32-bit write of a 32-bit device.
DevWrite32(dev, off, data) ==
    Outcome(<<Call(dev, "write", off, 4, data)>>, Ok(<<>>))

\* dev.read(off) as u64 | (dev.read(off + 4) as u64) << 32
DevRead64(dev, off, resp) ==
    LET lo == Call(dev, "read", off, 4, SubSeq(resp, 1, 4))
        hi == Call(dev, "read", off + 4, 4, SubSeq(resp, 5, 8))
    IN Outcome(<<lo, hi>>, Ok(lo.val \o hi.val))

\* The high word written first.
DevWrite64_HighFirst(dev, off, data) ==
    Outcome(<<Call(dev, "write", off + 4, 4, High32(data)),
              Call(dev, "write", off, 4, Low32(data))>>, Ok(<<>>))

\* dev.write(off, data as u32); dev.write(off + 4, (data >> 32) & 0xffffffff)
DevWrite64(dev, off, data) ==
    Outcome(<<Call(dev, "write", off, 4, Low32(data)),
              Call(dev, "write", off + 4, 4, High32(data))>>, Ok(<<>>))

----------------------------------------------------------------------------
(* The bus operations: each gives the device calls made and the result. *)

read8(addr, resp) ==
    IF AddrLe(DRAM_ADDRESS_START, addr)
    THEN DramRead(AddrSub(addr, DRAM_ADDRESS_START), 1, resp)
    ELSE IF InRange(addr, TIMER_ADDRESS_START, TIMER_ADDRESS_END) THEN UnexpectedSizeAccess
    ELSE IF InRange(addr, INTC_ADDRESS_START, INTC_ADDRESS_END) THEN UnexpectedSizeAccess
    ELSE IF InRange(addr, UART_ADDRESS_START, UART_ADDRESS_END)
         THEN UartReads(AddrSub(addr, UART_ADDRESS_START), 1, resp)
    ELSE IF InRange(addr, VIRTIO_ADDRESS_START, VIRTIO_ADDRESS_END) THEN UnexpectedSizeAccess
    ELSE AccessFault

read16(addr, resp) ==
    IF AddrLe(DRAM_ADDRESS_START, addr)
    THEN DramRead(AddrSub(addr, DRAM_ADDRESS_START), 2, resp)
    ELSE IF InRange(addr, TIMER_ADDRESS_START, TIMER_ADDRESS_END) THEN UnexpectedSizeAccess
    ELSE IF InRange(addr, INTC_ADDRESS_START, INTC_ADDRESS_END) THEN UnexpectedSizeAccess
    ELSE IF InRange(addr, UART_ADDRESS_START, UART_ADDRESS_END)
         THEN UartReads(AddrSub(addr, UART_ADDRESS_START), 2, resp)
    ELSE IF InRange(addr, VIRTIO_ADDRESS_START, VIRTIO_ADDRESS_END) THEN UnexpectedSizeAccess
    ELSE AccessFault

read32(addr, resp) ==
    IF AddrLe(DRAM_ADDRESS_START, addr)
    THEN DramRead(AddrSub(addr, DRAM_ADDRESS_START), 4, resp)
    ELSE IF InRange(addr, TIMER_ADDRESS_START, TIMER_ADDRESS_END)
         THEN DevRead32("timer", AddrSub(addr, TIMER_ADDRESS_START), resp)
    ELSE IF InRange(addr, INTC_ADDRESS_START, INTC_ADDRESS_END)
         THEN DevRead32("intc", AddrSub(addr, INTC_ADDRESS_START), resp)
    ELSE IF InRange(addr, UART_ADDRESS_START, UART_ADDRESS_END)
         THEN UartReads(AddrSub(addr, UART_ADDRESS_START), 4, resp)
    ELSE IF InRange(addr, VIRTIO_ADDRESS_START, VIRTIO_ADDRESS_END)
         THEN DevRead32("virtio", AddrSub(addr, VIRTIO_ADDRESS_START), resp)
    ELSE AccessFault

read64(addr, resp) ==
    IF AddrLe(DRAM_ADDRESS_START, addr)
    THEN DramRead(AddrSub(addr, DRAM_ADDRESS_START), 8, resp)
    ELSE IF InRange(addr, TIMER_ADDRESS_START, TIMER_ADDRESS_END)
         THEN DevRead64("timer", AddrSub(addr, TIMER_ADDRESS_START), resp)
    ELSE IF InRange(addr, INTC_ADDRESS_START, INTC_ADDRESS_END)
         THEN DevRead64("intc", AddrSub(addr, INTC_ADDRESS_START), resp)
    ELSE IF InRange(addr, UART_ADDRESS_START, UART_ADDRESS_END)
         THEN UartReads(AddrSub(addr, UART_ADDRESS_START), 8, resp)
    ELSE IF InRange(addr, VIRTIO_ADDRESS_START, VIRTIO_ADDRESS_END)
         THEN DevRead64("virtio", AddrSub(addr, VIRTIO_ADDRESS_START), resp)
    ELSE AccessFault

write8(addr, data) ==
    IF AddrLe(DRAM_ADDRESS_START, addr)
    THEN DramWrite(AddrSub(addr, DRAM_ADDRESS_START), 1, data)
    ELSE IF InRange(addr, TIMER_ADDRESS_START, TIMER_ADDRESS_END) THEN UnexpectedSizeAccess
    ELSE IF InRange(addr, INTC_ADDRESS_START, INTC_ADDRESS_END) THEN UnexpectedSizeAccess
    ELSE IF InRange(addr, UART_ADDRESS_START, UART_ADDRESS_END)
         THEN UartWrites(AddrSub(addr, UART_ADDRESS_START), 1, data)
    ELSE IF InRange(addr, VIRTIO_ADDRESS_START, VIRTIO_ADDRESS_END) THEN UnexpectedSizeAccess
    ELSE AccessFault

write16(addr, data) ==
    IF AddrLe(DRAM_ADDRESS_START, addr)
    THEN DramWrite(AddrSub(addr, DRAM_ADDRESS_START), 2, data)
    ELSE IF InRange(addr, TIMER_ADDRESS_START, TIMER_ADDRESS_END) THEN UnexpectedSizeAccess
    ELSE IF InRange(addr, INTC_ADDRESS_START, INTC_ADDRESS_END) THEN UnexpectedSizeAccess
    ELSE IF InRange(addr, UART_ADDRESS_START, UART_ADDRESS_END)
         THEN UartWrites(AddrSub(addr, UART_ADDRESS_START), 2, data)
    ELSE IF InRange(addr, VIRTIO_ADDRESS_START, VIRTIO_ADDRESS_END) THEN UnexpectedSizeAccess
    ELSE AccessFault

write32(addr, data) ==
    IF AddrLe(DRAM_ADDRESS_START, addr)
    THEN DramWrite(AddrSub(addr, DRAM_ADDRESS_START), 4, data)
    ELSE IF InRange(addr, TIMER_ADDRESS_START, TIMER_ADDRESS_END)
         THEN DevWrite32("timer", AddrSub(addr, TIMER_ADDRESS_START), data)
    ELSE IF InRange(addr, INTC_ADDRESS_START, INTC_ADDRESS_END)
         THEN DevWrite32("intc", AddrSub(addr, INTC_ADDRESS_START), data)
    ELSE IF InRange(addr, UART_ADDRESS_START, UART_ADDRESS_END)
         THEN UartWrites(AddrSub(addr, UART_ADDRESS_START), 4, data)
    ELSE IF InRange(addr, VIRTIO_ADDRESS_START, VIRTIO_ADDRESS_END)
         THEN DevWrite32("virtio", AddrSub(addr, VIRTIO_ADDRESS_START), data)
    ELSE AccessFault

write64(addr, data) ==
    IF AddrLe(DRAM_ADDRESS_START, addr)
    THEN DramWrite(AddrSub(addr, DRAM_ADDRESS_START), 8, data)
    ELSE IF InRange(addr, TIMER_ADDRESS_START, TIMER_ADDRESS_END)
         THEN DevWrite64("timer", AddrSub(addr, TIMER_ADDRESS_START), data)
    ELSE IF InRange(addr, INTC_ADDRESS_START, INTC_ADDRESS_END)
         THEN DevWrite64("intc", AddrSub(addr, INTC_ADDRESS_START), data)
    ELSE IF InRange(addr, UART_ADDRESS_START, UART_ADDRESS_END)
         THEN UartWrites(AddrSub(addr, UART_ADDRESS_START), 8, data)
    ELSE IF InRange(addr, VIRTIO_ADDRESS_START, VIRTIO_ADDRESS_END)
         THEN DevWrite64("virtio", AddrSub(addr, VIRTIO_ADDRESS_START), data)
    ELSE AccessFault

\* UART and virtio ids exchanged.
Interrupts_Swapped(uart_is_irq, virtio_is_irq) ==
    (IF uart_is_irq THEN <<1>> ELSE <<>>) \o (IF virtio_is_irq THEN <<10>> ELSE <<>>)

\* The vector `interrupts` of tick(): 10 pushed if the UART asserts, then 1 if
\* the virtio device asserts.
Interrupts(uart_is_irq, virtio_is_irq) ==
    (IF uart_is_irq THEN <<10>> ELSE <<>>) \o (IF virtio_is_irq THEN <<1>> ELSE <<>>)

Bit(b) == IF b THEN <<1>> ELSE <<0>>

\* The PLIC handed the ids before the devices are updated.
tick_IntcFirst(uart_is_irq, virtio_is_irq, ack) ==
    Outcome(<<Call("uart", "is_irq", 0, 0, Bit(uart_is_irq)),
              Call("virtio", "is_irq", 0, 0, Bit(virtio_is_irq)),
              Call("intc", "tick", 0, 0, Interrupts(uart_is_irq, virtio_is_irq)),
              Call("virtio", "tick", 0, 0, <<>>),
              Call("timer", "tick", 0, 0, <<>>),
              Call("uart", "tick", 0, 0, <<>>)>>,
            Ok(ack))

\* tick(): the device calls after self.clock is advanced.  uart_is_irq and
\* virtio_is_irq are what the two devices answer when asked, ack is the vector
\* intc.tick(0, interrupts) returns.
tick(uart_is_irq, virtio_is_irq, ack) ==
    Outcome(<<Call("virtio", "tick", 0, 0, <<>>),
              Call("timer", "tick", 0, 0, <<>>),
              Call("uart", "tick", 0, 0, <<>>),
              Call("uart", "is_irq", 0, 0, Bit(uart_is_irq)),
              Call("virtio", "is_irq", 0, 0, Bit(virtio_is_irq)),
              Call("intc", "tick", 0, 0, Interrupts(uart_is_irq, virtio_is_irq))>>,
            Ok(ack))

----------------------------------------------------------------------------
(* Inputs of the bus operations *)

\* The number of bus ticks explored.
MaxClock == 1

\* The addresses tried: the first and last bytes of every range, their
\* neighbours, the last places where a 2-, 4- and 8-byte access fits, and
\* addresses inside and outside the ranges.
Addrs ==
    { Addr(\h0000, \h0000),
      AddrAdd(TIMER_ADDRESS_START, -1), TIMER_ADDRESS_START, Addr(\h0200, \hBFF8),
      AddrAdd(TIMER_ADDRESS_END, -7), AddrAdd(TIMER_ADDRESS_END, -3),
      TIMER_ADDRESS_END, AddrAdd(TIMER_ADDRESS_END, 1),
      AddrAdd(INTC_ADDRESS_START, -1), INTC_ADDRESS_START, Addr(\h0C20, \h0004),
      AddrAdd(INTC_ADDRESS_END, -7), AddrAdd(INTC_ADDRESS_END, -3), INTC_ADDRESS_END,
      UART_ADDRESS_START, AddrAdd(UART_ADDRESS_START, 1),
      AddrAdd(UART_ADDRESS_END, -7), AddrAdd(UART_ADDRESS_END, -3),
      AddrAdd(UART_ADDRESS_END, -1), UART_ADDRESS_END,
      VIRTIO_ADDRESS_START, Addr(\h1000, \h1050),
      AddrAdd(VIRTIO_ADDRESS_END, -7), AddrAdd(VIRTIO_ADDRESS_END, -3),
      VIRTIO_ADDRESS_END, AddrAdd(VIRTIO_ADDRESS_END, 1),
      AddrAdd(DRAM_ADDRESS_START, -1), DRAM_ADDRESS_START, AddrAdd(DRAM_ADDRESS_START, 1),
      Addr(\h87FF, \hFFF8), Addr(\h87FF, \hFFFC), Addr(\h87FF, \hFFFF),
      Addr(\h8800, \h0000), Addr(\hFFFF, \hFFFF) }

\* The bytes of the 32-bit value n (0 <= n < 2^31), least significant first.
U32(n) == [k \in 1..4 |-> (n \div (256 ^ (k - 1))) % 256]

\* What a device answers to the reads of one bus operation, as a byte stream.
RespSamples ==
    { <<\h10, \h32, \h54, \h76, \h98, \hBA, \hDC, \hFE>>,
      <<\hFF, 1, 0, \h80, 1, 0, 0, 0>> }

\* The values written, by width in bytes.
DataSamples(n) ==
    CASE n = 1 -> { <<\h41>>, <<\hFF>> }
      [] n = 2 -> { <<\h34, \h12>>, <<\h00, \h80>> }
      [] n = 4 -> { U32(287454020), <<\hEF, \hBE, \hAD, \hDE>> }
      [] n = 8 -> { <<\h88, \h77, \h66, \h55, \h44, \h33, \h22, \h11>>,
                    <<1, 0, 0, 0, \hFF, \hFF, \hFF, \hFF>> }

----------------------------------------------------------------------------
(* The bus as a state machine *)

Count(cs, dev, o) == Cardinality({i \in 1..Len(cs) : cs[i].dev = dev /\ cs[i].op = o})

\* A panic ends the process: nothing runs after it.
Alive == result.kind # "fatal"

\* One bus operation: the calls it made and its result are recorded.  The bus
\* reads the devices' interrupt lines in tick() only, after it updated them.
Do(name, addr, data, r) ==
    /\ op' = [name |-> name, addr |-> addr, data |-> data]
    /\ calls' = r.calls
    /\ result' = r.result
    /\ UNCHANGED <<clock, mtime, uartIrq, virtioIrq>>
    /\ UNCHANGED <<emuVars, decVars>>

Read8 == Alive /\ \E addr \in Addrs, resp \in RespSamples : Do("read8", addr, <<>>, read8(addr, resp))

Read16 == Alive /\ \E addr \in Addrs, resp \in RespSamples : Do("read16", addr, <<>>, read16(addr, resp))

Read32 == Alive /\ \E addr \in Addrs, resp \in RespSamples : Do("read32", addr, <<>>, read32(addr, resp))

Read64 == Alive /\ \E addr \in Addrs, resp \in RespSamples : Do("read64", addr, <<>>, read64(addr, resp))

Write8 == Alive /\ \E addr \in Addrs, data \in DataSamples(1) : Do("write8", addr, data, write8(addr, data))

Write16 == Alive /\ \E addr \in Addrs, data \in DataSamples(2) : Do("write16", addr, data, write16(addr, data))

Write32 == Alive /\ \E addr \in Addrs, data \in DataSamples(4) : Do("write32", addr, data, write32(addr, data))

Write64 == Alive /\ \E addr \in Addrs, data \in DataSamples(8) : Do("write64", addr, data, write64(addr, data))

\* tick(): the clock advances (wrapping_add; the wrap at 2^64 is beyond MaxClock),
\* the devices are updated, which may change their interrupt lines, and the lines
\* are then read and handed to the PLIC.
Tick ==
    /\ Alive
    /\ clock < MaxClock
    /\ clock' = clock + 1
    /\ \E u \in BOOLEAN, v \in BOOLEAN, ack \in {<<0>>, <<1>>} :
        LET r == tick(u, v, ack) IN
        /\ uartIrq' = u
        /\ virtioIrq' = v
        /\ mtime' = mtime + Count(r.calls, "timer", "tick")
        /\ op' = [name |-> "tick", addr |-> Addr(0, 0), data |-> <<>>]
        /\ calls' = r.calls
        /\ result' = r.result
    /\ UNCHANGED <<emuVars, decVars>>

\* BusFu540::new
BusNew ==
    /\ clock = 0
    /\ mtime = 0
    /\ uartIrq = FALSE
    /\ virtioIrq = FALSE
    /\ op = [name |-> "new", addr |-> Addr(0, 0), data |-> <<>>]
    /\ calls = <<>>
    /\ result = Ok(<<>>)

\* No emulator is run.
EmuIdle ==
    /\ testmode = FALSE
    /\ tohost = Addr(0, 0)
    /\ cell = 0
    /\ phase = "new"
    /\ ret = [kind |-> "none", val |-> 0]
    /\ steps = 0
    /\ reads = 0

\* Nothing is decompressed.
DecIdle ==
    /\ xlen = "X64"
    /\ word = 0
    /\ form = "none"
    /\ dec = [kind |-> "none", val |-> <<0, 0>>]

Init == BusNew /\ EmuIdle /\ DecIdle

Next ==
    \/ Read8 \/ Read16 \/ Read32 \/ Read64
    \/ Write8 \/ Write16 \/ Write32 \/ Write64
    \/ Tick

Spec == Init /\ [][Next]_vars

----------------------------------------------------------------------------
(* The emulator: new, load_program and run *)

\* The number of iterations of run()'s loop explored.
MaxSteps == 4

\* The words the guest's memory may hold at .tohost.
CellSamples == {0, 1, 2, 3, 1337, 2147483647}

\* The addresses search_tohost may find: 0, DRAM addresses, an unmapped one.
TohostAddrs == { Addr(0, 0), Addr(\h8000, \h1000), Addr(\h8000, \h2000), Addr(\h0000, \h1000) }

\* The value of four bytes, least significant first (it is below 2^31 here).
Value32(b) == b[1] + 256 * b[2] + 65536 * b[3] + 16777216 * b[4]

\* Mmu::read32_direct(paddr): the untranslated 32-bit read, through the bus;
\* mem is the word the memory holds there.
read32_direct(paddr, mem) == read32(paddr, U32(mem) \o <<0, 0, 0, 0>>).result

\* Every non-zero word reported as success.
RunMatch_AllOk(data) ==
    IF data = 0 THEN [kind |-> "continue", val |-> 0]
    ELSE [kind |-> "Ok", val |-> 1]

\* match data { 0 => {}, 1 => return Ok(1), n => return Err(n) }
RunMatch(data) ==
    IF data = 0 THEN [kind |-> "continue", val |-> 0]
    ELSE IF data = 1 THEN [kind |-> "Ok", val |-> 1]
    ELSE [kind |-> "Err", val |-> data]

\* Emulator::new(tty, testmode_)
EmuNew ==
    /\ testmode \in BOOLEAN
    /\ tohost = Addr(0, 0)
    /\ cell = 0
    /\ phase = "new"
    /\ ret = [kind |-> "none", val |-> 0]
    /\ steps = 0
    /\ reads = 0

\* load_program: the image is written to memory (whatever it holds at .tohost)
\* and, in test mode, tohost becomes the address search_tohost found, or 0.
LoadProgram ==
    /\ phase = "new"
    /\ \E found \in {<<>>} \cup {<<a>> : a \in TohostAddrs}, c \in CellSamples :
        /\ tohost' = IF testmode
                     THEN (IF found = <<>> THEN Addr(0, 0) ELSE found[1])
                     ELSE tohost
        /\ cell' = c
    /\ phase' = "loaded"
    /\ UNCHANGED <<testmode, ret, steps, reads, busVars, decVars>>

\* The cell checked in test mode whatever tohost is.
RunIter_AnyTohost ==
    /\ phase \in {"new", "loaded", "running"}
    /\ steps < MaxSteps
    /\ \E c \in CellSamples :
        /\ cell' = c
        /\ steps' = steps + 1
        /\ IF testmode
           THEN LET r == read32_direct(tohost, c) IN
                /\ reads' = reads + 1
                /\ IF r.kind = "ok"
                   THEN LET m == RunMatch(Value32(r.val)) IN
                        IF m.kind = "continue"
                        THEN phase' = "running" /\ ret' = ret
                        ELSE phase' = "returned" /\ ret' = m
                   ELSE phase' = "panicked" /\ ret' = ret
           ELSE reads' = reads /\ phase' = "running" /\ ret' = ret
    /\ UNCHANGED <<testmode, tohost, busVars, decVars>>

\* One iteration of run()'s loop: cpu.tick(), in which the guest may store any
\* word to .tohost, then the test-mode check of the cell.
RunIter ==
    /\ phase \in {"new", "loaded", "running"}
    /\ steps < MaxSteps
    /\ \E c \in CellSamples :
        /\ cell' = c
        /\ steps' = steps + 1
        /\ IF testmode /\ tohost # Addr(0, 0)
           THEN LET r == read32_direct(tohost, c) IN
                /\ reads' = reads + 1
                /\ IF r.kind = "ok"
                   THEN LET m == RunMatch(Value32(r.val)) IN
                        IF m.kind = "continue"
                        THEN phase' = "running" /\ ret' = ret
                        ELSE phase' = "returned" /\ ret' = m
                   ELSE phase' = "panicked" /\ ret' = ret
           ELSE reads' = reads /\ phase' = "running" /\ ret' = ret
    /\ UNCHANGED <<testmode, tohost, busVars, decVars>>

RunInit == BusNew /\ EmuNew /\ DecIdle

RunNext == LoadProgram \/ RunIter

SpecRun == RunInit /\ [][RunNext]_vars

----------------------------------------------------------------------------
(* The decompressor.  A u16 is an integer below 2^16; a u32 is the pair       *)
(* <<hi, lo>> of its 16-bit halves.                                         *)

RECURSIVE BitAnd(_, _)
\* a & b
BitAnd(a, b) ==
    IF a = 0 \/ b = 0 THEN 0
    ELSE (a % 2) * (b % 2) + 2 * BitAnd(a \div 2, b \div 2)

RECURSIVE BitOr(_, _)
\* a | b
BitOr(a, b) ==
    IF a = 0 THEN b
    ELSE IF b = 0 THEN a
    ELSE (IF a % 2 = 1 \/ b % 2 = 1 THEN 1 ELSE 0) + 2 * BitOr(a \div 2, b \div 2)

\* a >> k
Shr(a, k) == a \div (2 ^ k)

\* a << k on u16: the bits shifted out are lost
Shl16(a, k) == (a * (2 ^ k)) % 65536

\* x as u32, and the u32 a << k of a value whose shift stays below 2^31
AsU32(x) == <<x \div 65536, x % 65536>>

\* a | b on u32
Or32(a, b) == <<BitOr(a[1], b[1]), BitOr(a[2], b[2])>>

DOk(v) == [kind |-> "ok", val |-> v]
\* Err(()): the illegal-instruction error
DIllegal == [kind |-> "illegal", val |-> <<0, 0>>]
\* a panic
DFatal == [kind |-> "fatal", val |-> <<0, 0>>]

\* Every XLEN taken for 32 bits.
XlenAsU8_Always32(x) == 0

\* cpu.xlen.clone() as u8
XlenAsU8(x) == IF x = "X32" THEN 0 ELSE 1

\* COMPRESSED_INSTRUCTIONS_GROUP0.get(&funct3)
COMPRESSED_INSTRUCTIONS_GROUP0(funct3) ==
    CASE funct3 = 0 -> "c.addi4spn"
      [] funct3 = 1 -> "c.fld"
      [] funct3 = 2 -> "c.lw"
      [] funct3 = 5 -> "c.fsd"
      [] funct3 = 6 -> "c.sw"
      [] OTHER -> "None"

\* COMPRESSED_INSTRUCTIONS_GROUP0_SUB.get(&(xlen, funct3))
COMPRESSED_INSTRUCTIONS_GROUP0_SUB(x, funct3) ==
    CASE x = 0 /\ funct3 = 3 -> "c.flw"
      [] x = 1 /\ funct3 = 3 -> "c.ld"
      [] x = 0 /\ funct3 = 7 -> "c.fsw"
      [] x = 1 /\ funct3 = 7 -> "c.sd"
      [] OTHER -> "None"

\* COMPRESSED_INSTRUCTIONS_GROUP1.get(&funct3)
COMPRESSED_INSTRUCTIONS_GROUP1(funct3) ==
    CASE funct3 = 2 -> "c.li"
      [] funct3 = 5 -> "c.j"
      [] funct3 = 6 -> "c.beqz"
      [] funct3 = 7 -> "c.bnez"
      [] OTHER -> "None"

\* COMPRESSED_INSTRUCTIONS_GROUP2.get(&funct3)
COMPRESSED_INSTRUCTIONS_GROUP2(funct3) ==
    CASE funct3 = 0 -> "c.slli"
      [] funct3 = 1 -> "c.fldsp"
      [] funct3 = 2 -> "c.lwsp"
      [] funct3 = 5 -> "c.fsdsp"
      [] funct3 = 6 -> "c.swsp"
      [] OTHER -> "None"

\* Some(instruction) => Ok(&instruction), None => panic!("Not found instruction!")
Found(mnemonic) == IF mnemonic = "None" THEN "panic" ELSE mnemonic

\* The selected form's mnemonic, or "panic".
opecode_0(x, w) ==
    LET funct3 == BitAnd(Shr(w, 13), 7) IN
    IF funct3 \in {3, 7}
    THEN Found(COMPRESSED_INSTRUCTIONS_GROUP0_SUB(XlenAsU8(x), funct3))
    ELSE Found(COMPRESSED_INSTRUCTIONS_GROUP0(funct3))

opecode_1(x, w) ==
    LET funct3 == BitAnd(Shr(w, 13), 7) IN
    CASE funct3 = 0 -> IF w = 1 THEN "c.nop" ELSE "c.addi"
      [] funct3 = 1 -> IF x = "X32" THEN "c.jal" ELSE "c.addiw"
      [] funct3 = 3 -> IF BitAnd(w, \hf00) = 1 THEN "c.addi16sp" ELSE "c.lui"
      [] funct3 = 4 ->
            CASE BitAnd(Shr(w, 10), 3) = 0 -> "c.srli"
              [] BitAnd(Shr(w, 10), 3) = 1 -> "c.srai"
              [] BitAnd(Shr(w, 10), 3) = 2 -> "c.andi"
              [] OTHER ->
                    CASE BitAnd(Shr(w, 5), 3) = 0 ->
                            IF BitAnd(Shr(w, 12), 1) = 0 THEN "c.sub" ELSE "c.subw"
                      [] BitAnd(Shr(w, 5), 3) = 1 ->
                            IF BitAnd(Shr(w, 12), 1) = 0 THEN "c.xor" ELSE "c.addw"
                      [] BitAnd(Shr(w, 5), 3) = 2 -> "c.or"
                      [] OTHER -> "c.and"
      [] OTHER -> Found(COMPRESSED_INSTRUCTIONS_GROUP1(funct3))

opecode_2(x, w) ==
    LET funct3 == BitAnd(Shr(w, 13), 7) IN
    CASE funct3 = 3 -> IF x = "X32" THEN "c.flwsp" ELSE "c.ldsp"
      [] funct3 = 4 ->
            IF BitAnd(Shr(w, 12), 1) = 0
            THEN (IF BitAnd(Shr(w, 2), \h1f) = 0 THEN "c.jr" ELSE "c.mv")
            ELSE IF BitAnd(Shr(w, 2), \h3ff) = 0 THEN "c.ebreak"
            ELSE IF BitAnd(Shr(w, 2), \h1f) = 0 THEN "c.jalr"
            ELSE "c.add"
      [] funct3 = 7 -> IF x = "X32" THEN "c.fswsp" ELSE "c.sdsp"
      [] OTHER -> Found(COMPRESSED_INSTRUCTIONS_GROUP2(funct3))

\* COMPRESSED_OPECODES.get(&(word & 0x3)) and the call of its operation
Opecode(x, w) ==
    CASE BitAnd(w, 3) = 0 -> opecode_0(x, w)
      [] BitAnd(w, 3) = 1 -> opecode_1(x, w)
      [] BitAnd(w, 3) = 2 -> opecode_2(x, w)
      [] OTHER -> "panic"

\* Word bits 6 and 5 placed the other way round: bit 6 as nzuimm[3], bit 5 as
\* nzuimm[2].
c_addi4spn_SwappedBits(w) ==
    LET rd_ == BitAnd(Shr(w, 2), 7)
        uimm == BitOr(BitOr(BitOr(BitAnd(Shr(w, 7), \h30), BitAnd(Shr(w, 1), \h3c0)),
                            BitAnd(Shr(w, 3), \h8)),
                      BitAnd(Shr(w, 3), \h4))
    IN IF uimm = 0 THEN DIllegal
       ELSE LET o == AsU32(\h13)
                imm == AsU32(uimm * (2 ^ 20))
                rs1 == AsU32(2 * (2 ^ 15))
                rd == AsU32((rd_ + 8) * (2 ^ 7))
            IN DOk(Or32(Or32(Or32(imm, rs1), rd), o))

c_addi4spn(w) ==
    LET rd_ == BitAnd(Shr(w, 2), 7)
        uimm == BitOr(BitOr(BitOr(BitAnd(Shr(w, 7), \h30), BitAnd(Shr(w, 1), \h3c0)),
                            BitAnd(Shr(w, 4), \h4)),
                      BitAnd(Shr(w, 2), \h8))
    IN IF uimm = 0 THEN DIllegal
       ELSE LET o == AsU32(\h13)
                imm == AsU32(uimm * (2 ^ 20))
                rs1 == AsU32(2 * (2 ^ 15))
                rd == AsU32((rd_ + 8) * (2 ^ 7))
            IN DOk(Or32(Or32(Or32(imm, rs1), rd), o))

\* Ok(0x13)
c_nop == DOk(AsU32(\h13))

c_addi(w) ==
    LET rd_ == BitAnd(Shr(w, 7), \h1f)
        imm0 == AsU32(BitOr(Shr(BitAnd(w, \h1000), 7), BitAnd(w, Shr(\hfc, 2))))
        o == AsU32(\h13)
        imm == Or32(IF BitAnd(w, \h1000) = 0 THEN AsU32(0) ELSE <<\hfffc, \h0000>>, imm0)
        rd == AsU32(rd_ * (2 ^ 7))
        rs1 == AsU32(rd_ * (2 ^ 15))
    IN DOk(Or32(Or32(Or32(imm, rs1), rd), o))

c_lui(w) ==
    LET rd_ == BitAnd(Shr(w, 7), \h1f)
        imm0 == AsU32(BitOr(Shl16(BitAnd(w, \h1000), 5), BitAnd(w, Shl16(\hfc, 10))))
    IN IF imm0 = AsU32(0) THEN DIllegal
       ELSE LET o == AsU32(\h37)
                imm == Or32(IF BitAnd(w, \h1000) = 0 THEN AsU32(0) ELSE <<\hfffc, \h0000>>, imm0)
                rd == AsU32(rd_ * (2 ^ 7))
            IN DOk(Or32(Or32(imm, rd), o))

\* rd = 0 accepted: only rs2 = 0 is illegal.
c_add_NoRdCheck(w) ==
    LET rd_ == BitAnd(Shr(w, 7), \h1f)
        rs2_ == BitAnd(Shr(w, 2), \h1f)
    IN IF rs2_ = 0 THEN DIllegal
       ELSE LET o == AsU32(\h33)
                rd == AsU32(rd_ * (2 ^ 7))
                rs1 == AsU32(rd_ * (2 ^ 15))
                rs2 == AsU32(rs2_ * (2 ^ 20))
            IN DOk(Or32(Or32(Or32(rs2, rs1), rd), o))

c_add(w) ==
    LET rd_ == BitAnd(Shr(w, 7), \h1f)
        rs2_ == BitAnd(Shr(w, 2), \h1f)
    IN IF rd_ = 0 \/ rs2_ = 0 THEN DIllegal
       ELSE LET o == AsU32(\h33)
                rd == AsU32(rd_ * (2 ^ 7))
                rs1 == AsU32(rd_ * (2 ^ 15))
                rs2 == AsU32(rs2_ * (2 ^ 20))
            IN DOk(Or32(Or32(Or32(rs2, rs1), rd), o))

\* The decompress functions whose body is panic!("TODO").
Todo ==
    { "c.fld", "c.lw", "c.flw", "c.ld", "c.fsd", "c.sw", "c.fsw", "c.sd",
      "c.jal", "c.addiw", "c.li", "c.addi16sp", "c.srli", "c.srai", "c.andi",
      "c.sub", "c.xor", "c.or", "c.and", "c.subw", "c.addw", "c.j", "c.beqz",
      "c.bnez", "c.slli", "c.fldsp", "c.lwsp", "c.flwsp", "c.ldsp", "c.jr",
      "c.mv", "c.ebreak", "c.jalr", "c.fsdsp", "c.swsp", "c.fswsp", "c.sdsp" }

\* (instruction.decompress)(cpu, compressed_word) of the form with this mnemonic
Decompress(mnemonic, w) ==
    CASE mnemonic = "c.addi4spn" -> c_addi4spn(w)
      [] mnemonic = "c.nop" -> c_nop
      [] mnemonic = "c.addi" -> c_addi(w)
      [] mnemonic = "c.lui" -> c_lui(w)
      [] mnemonic = "c.add" -> c_add(w)
      [] mnemonic \in Todo -> DFatal

\* instruction_decompress(cpu, instruction_addr, word): the form and the result
instruction_decompress(x, w) ==
    LET compressed_word == BitAnd(w, \hffff)
        mnemonic == Opecode(x, compressed_word)
    IN [form |-> mnemonic,
        res |-> IF mnemonic = "panic" THEN DFatal ELSE Decompress(mnemonic, compressed_word)]

\* The half-words given to the decompressor: the low two bits are not 0b11.
Halfwords == {w \in 0..65535 : w % 4 # 3}

DecInit ==
    /\ BusNew /\ EmuIdle
    /\ xlen \in {"X32", "X64"}
    /\ word \in Halfwords
    /\ form = "none"
    /\ dec = [kind |-> "none", val |-> <<0, 0>>]

DecompressStep ==
    /\ dec.kind = "none"
    /\ form' = instruction_decompress(xlen, word).form
    /\ dec' = instruction_decompress(xlen, word).res
    /\ UNCHANGED <<xlen, word, busVars, emuVars>>

DecNext == DecompressStep

SpecDecomp == DecInit /\ [][DecNext]_vars

----------------------------------------------------------------------------
(* The memory map as the specification's table gives it, written out         *)
(* independently of the bus's range tests: what the claims compare with.    *)

MapRegion(a) ==
    IF a[1] = \h0200 THEN "timer"
    ELSE IF a[1] >= \h0C00 /\ a[1] <= \h0FFF THEN "intc"
    ELSE IF a[1] = \h1000 /\ a[2] <= \h0FFF THEN "uart"
    ELSE IF a[1] = \h1000 /\ a[2] >= \h1000 /\ a[2] <= \h1FFF THEN "virtio"
    ELSE IF a[1] >= \h8000 /\ a[1] <= \h87FF THEN "dram"
    ELSE "unmapped"

\* The address minus the first address of its range.
MapOffset(a) ==
    CASE MapRegion(a) = "timer" -> a[2]
      [] MapRegion(a) = "intc" -> (a[1] - \h0C00) * 65536 + a[2]
      [] MapRegion(a) = "uart" -> a[2]
      [] MapRegion(a) = "virtio" -> a[2] - \h1000
      [] MapRegion(a) = "dram" -> (a[1] - \h8000) * 65536 + a[2]
      [] OTHER -> -1

Reads == {"read8", "read16", "read32", "read64"}
Writes == {"write8", "write16", "write32", "write64"}

\* The width of a bus operation, in bytes.
Width(name) ==
    CASE name \in {"read8", "write8"} -> 1
      [] name \in {"read16", "write16"} -> 2
      [] name \in {"read32", "write32"} -> 4
      [] name \in {"read64", "write64"} -> 8
      [] OTHER -> 0

Kind(name) == IF name \in Reads THEN "read" ELSE "write"

\* The whole access lies within DRAM's 128 MiB.
FitsDram(a, n) == MapRegion(a) = "dram" /\ MapOffset(a) + n <= \h0800 * 65536

IsTickCall(c) == c.op = "tick"

----------------------------------------------------------------------------
(* Claims *)

\* C1: a 32-bit bus read or write at an address of one of the five ranges (for
\* DRAM: an access within the capacity) is served by the owner of the range
\* alone, starting at offset addr - range start, and returns Ok: one 32-bit
\* transaction for the timer, the PLIC, the virtio device and DRAM, byte
\* transactions of the UART for the UART range.  No other device is called.
C1_Routed32 ==
    (/\ op.name \in {"read32", "write32"}
     /\ MapRegion(op.addr) # "unmapped"
     /\ MapRegion(op.addr) = "dram" => FitsDram(op.addr, 4))
    => /\ result.kind = "ok"
       /\ Len(calls) >= 1
       /\ \A i \in 1..Len(calls) :
            calls[i].dev = MapRegion(op.addr) /\ calls[i].op = Kind(op.name)
       /\ calls[1].off = MapOffset(op.addr)
       /\ MapRegion(op.addr) # "uart" => Len(calls) = 1 /\ calls[1].n = 4

\* C1's case: a 32-bit write into the PLIC range, served by the PLIC.
C1_Witness ==
    /\ op.name = "write32"
    /\ op.addr = Addr(\h0C20, \h0004)
    /\ result.kind = "ok"
    /\ calls = <<Call("intc", "write", \h200004, 4, op.data)>>

\* C2: a bus access of any width below 0x8000_0000 and outside the four device
\* ranges returns an access fault and calls no device and not DRAM.
C2_UnmappedFaults ==
    (/\ op.name \in Reads \cup Writes
     /\ op.addr[1] < \h8000
     /\ MapRegion(op.addr) = "unmapped")
    => result.kind = "err" /\ calls = <<>>

\* C2's case: a 64-bit write just past the virtio range has faulted.
C2_Witness ==
    /\ op.name = "write64"
    /\ op.addr = Addr(\h1000, \h2000)
    /\ result.kind = "err"

\* C3 (as claimed): an access at or above 0x8000_0000 + 128 MiB returns an access
\* fault and is not routed to DRAM.
C3_PastDramFaults ==
    (op.name \in Reads \cup Writes /\ op.addr[1] >= \h8800)
    => /\ result.kind = "err"
       /\ \A i \in 1..Len(calls) : calls[i].dev # "dram"

\* C4: an 8- or 16-bit bus access in the timer, PLIC or virtio range ends in a
\* panic, neither a value nor an access fault, and no device call precedes it.
C4_NarrowAccessFatal ==
    (/\ op.name \in {"read8", "read16", "write8", "write16"}
     /\ MapRegion(op.addr) \in {"timer", "intc", "virtio"})
    => result.kind = "fatal" /\ calls = <<>>

\* C4's case: a 16-bit write into the virtio range has panicked.
C4_Witness ==
    /\ op.name = "write16"
    /\ MapRegion(op.addr) = "virtio"
    /\ result.kind = "fatal"

\* C5: an N-byte bus access (N = 2, 4, 8) at UART offset o is N one-byte UART
\* transactions at o, o+1, ..., o+N-1 in this order; on a write transaction k
\* carries bits 8k..8k+7 of the value (0x11223344 goes out as 0x44, 0x33, 0x22,
\* 0x11), on a read the result is the bytes read, the first the least
\* significant.
C5_UartBytes ==
    (/\ op.name \in {"read16", "read32", "read64", "write16", "write32", "write64"}
     /\ MapRegion(op.addr) = "uart")
    => LET n == Width(op.name) IN
       /\ Len(calls) = n
       /\ \A k \in 1..n :
            /\ calls[k].dev = "uart"
            /\ calls[k].op = Kind(op.name)
            /\ calls[k].off = MapOffset(op.addr) + (k - 1)
            /\ calls[k].n = 1
            /\ Len(calls[k].val) = 1
            /\ op.name \in Writes => calls[k].val[1] = op.data[k]
       /\ op.name \in Reads =>
            result = Ok([k \in 1..n |-> calls[k].val[1]])
       /\ (op.name = "write32" /\ op.data = U32(287454020)) =>
            [k \in 1..n |-> calls[k].val[1]] = <<\h44, \h33, \h22, \h11>>

\* C5's case: the 32-bit write of 0x11223344 at the UART base.
C5_Witness ==
    /\ op.name = "write32"
    /\ op.addr = Addr(\h1000, 0)
    /\ op.data = <<\h44, \h33, \h22, \h11>>
    /\ Len(calls) = 4
    /\ calls[4] = Call("uart", "write", 3, 1, <<\h11>>)

\* C6: a 64-bit bus access at offset o of the timer, PLIC or virtio range is two
\* 32-bit transactions of that device, the first at o with bits 31..0, the
\* second at o+4 with bits 63..32.
C6_Split64 ==
    (/\ op.name \in {"read64", "write64"}
     /\ MapRegion(op.addr) \in {"timer", "intc", "virtio"})
    => /\ Len(calls) = 2
       /\ \A k \in 1..2 :
            /\ calls[k].dev = MapRegion(op.addr)
            /\ calls[k].op = Kind(op.name)
            /\ calls[k].n = 4
            /\ Len(calls[k].val) = 4
       /\ calls[1].off = MapOffset(op.addr)
       /\ calls[2].off = MapOffset(op.addr) + 4
       /\ op.name = "write64" =>
            /\ calls[1].val = SubSeq(op.data, 1, 4)
            /\ calls[2].val = SubSeq(op.data, 5, 8)
       /\ op.name = "read64" => result = Ok(calls[1].val \o calls[2].val)

\* C6's case: a 64-bit write of mtimecmp-like data into the timer range.
C6_Witness ==
    /\ op.name = "write64"
    /\ op.addr = Addr(\h0200, \hBFF8)
    /\ op.data = <<\h88, \h77, \h66, \h55, \h44, \h33, \h22, \h11>>
    /\ calls[2] = Call("timer", "write", \hBFFC, 4, <<\h44, \h33, \h22, \h11>>)

\* C7: a bus tick updates each device once, in the order virtio, timer, UART,
\* and only then hands the ids to the PLIC, once and for context 0; the lines
\* are read after the updates, so the timer has advanced once per bus tick and
\* the answers are the devices' state after this tick's updates.
C7_TickOrder ==
    /\ mtime = clock
    /\ op.name = "tick" =>
        LET ticks == SelectSeq(calls, IsTickCall) IN
        /\ [i \in 1..Len(ticks) |-> ticks[i].dev] = <<"virtio", "timer", "uart", "intc">>
        /\ calls[Len(calls)].dev = "intc"
        /\ calls[Len(calls)].off = 0
        /\ \A i \in 1..Len(calls) :
            calls[i].op = "is_irq" =>
                /\ \E j \in 1..(i - 1) : calls[j] = Call("uart", "tick", 0, 0, <<>>)
                /\ calls[i].val = Bit(IF calls[i].dev = "uart" THEN uartIrq ELSE virtioIrq)

\* C7's case: a tick has happened, after which both lines are asserted.
C7_Witness ==
    /\ op.name = "tick"
    /\ clock = 1
    /\ uartIrq /\ virtioIrq
    /\ Len(calls) = 6

\* C8: in a bus tick the ids handed to the PLIC hold 10 exactly if the UART
\* asserts its line, 1 exactly if the virtio device asserts its line, and
\* nothing else.
C8_IrqIds ==
    op.name = "tick" =>
        \A i \in 1..Len(calls) :
            (calls[i].dev = "intc" /\ calls[i].op = "tick") =>
                LET ids == {calls[i].val[j] : j \in 1..Len(calls[i].val)} IN
                /\ (10 \in ids) <=> uartIrq
                /\ (1 \in ids) <=> virtioIrq
                /\ ids \subseteq {1, 10}

\* C8's case: after a tick only the UART asserts, and the PLIC was handed <<10>>.
C8_Witness ==
    /\ op.name = "tick"
    /\ uartIrq /\ ~virtioIrq
    /\ calls[Len(calls)] = Call("intc", "tick", 0, 0, <<10>>)

\* The .tohost cell can be read: the four bytes at tohost lie in DRAM.
TohostReadable == FitsDram(tohost, 4)

\* C9: in test mode with a resolved .tohost whose cell is readable, run() reads
\* the cell after every CPU tick; it is still running exactly while every read
\* gave 0, and it has returned at the first non-zero word: Ok(1) for 1, Err(n)
\* for any other n.
C9_RunTohost ==
    (testmode /\ tohost # Addr(0, 0) /\ TohostReadable /\ steps >= 1)
    => /\ reads = steps
       /\ phase \in {"running", "returned"}
       /\ phase = "running" <=> cell = 0
       /\ phase = "running" => ret.kind = "none"
       /\ phase = "returned" =>
            ret = IF cell = 1 THEN [kind |-> "Ok", val |-> 1]
                  ELSE [kind |-> "Err", val |-> cell]

\* C9's case: the cell read 0 after the first tick and 1337 after the second,
\* and run() returned Err(1337).
C9_Witness ==
    /\ testmode
    /\ tohost = Addr(\h8000, \h1000)
    /\ steps = 2 /\ reads = 2
    /\ phase = "returned"
    /\ ret = [kind |-> "Err", val |-> 1337]

\* C10 (as claimed): for every half-word whose low two bits are not 0b11 and
\* for both XLEN, instruction_decompress returns an expanded word or the
\* illegal-instruction error, never a panic.
C10_NeverFatal == dec.kind # "fatal"

----------------------------------------------------------------------------
(* The RVC encoding as the ISA manual draws it, by division and remainder,  *)
(* and the 32-bit encodings the claims expect, as <<hi, lo>> halves.        *)

\* Bits lo+n-1..lo of the half-word.
Field(w, lo, n) == (w \div (2 ^ lo)) % (2 ^ n)

Quadrant(w) == Field(w, 0, 2)
Funct3(w) == Field(w, 13, 3)
RdField(w) == Field(w, 7, 5)
Rs2Field(w) == Field(w, 2, 5)

\* The 6-bit immediate of the CI format: bit 12 above bits 6:2.
Imm6(w) == 32 * Field(w, 12, 1) + Field(w, 2, 5)

\* A 6-bit two's-complement value sign-extended to n bits.
SignExtend6(v, n) == IF v >= 32 THEN v + (2 ^ n) - 64 ELSE v

\* I-type: imm[11:0] | rs1 | funct3 | rd | opcode
EncodeI(imm12, rs1, f3, rd, opcode) ==
    <<16 * imm12 + (rs1 \div 2),
      32768 * (rs1 % 2) + 4096 * f3 + 128 * rd + opcode>>

\* R-type with funct7 = 0: rs2 | rs1 | funct3 | rd | opcode
EncodeR(rs2, rs1, f3, rd, opcode) == EncodeI(rs2, rs1, f3, rd, opcode)

\* U-type: imm[31:12] | rd | opcode
EncodeU(imm20, rd, opcode) ==
    <<imm20 \div 16, 4096 * (imm20 % 16) + 128 * rd + opcode>>

\* C11 (as claimed): a c.lui half-word (quadrant 1, funct3 = 3, rd not 2)
\* decompresses to the illegal-instruction error exactly when its 6-bit
\* immediate is zero, and otherwise to lui rd, imm with the 20-bit immediate
\* field the sign-extension of the 6-bit immediate.
C11_LuiImmediate ==
    (/\ dec.kind # "none"
     /\ Quadrant(word) = 1 /\ Funct3(word) = 3 /\ RdField(word) # 2)
    => IF Imm6(word) = 0
       THEN dec.kind = "illegal"
       ELSE /\ dec.kind = "ok"
            /\ dec.val = EncodeU(SignExtend6(Imm6(word), 20), RdField(word), \h37)

\* C12: a c.addi4spn half-word (quadrant 0, funct3 = 0) decompresses to the
\* illegal-instruction error exactly when word bits 12:5 are zero, and
\* otherwise to addi x(8+rd'), x2, nzuimm with nzuimm[5:4] = bits 12:11,
\* nzuimm[9:6] = bits 10:7, nzuimm[2] = bit 6, nzuimm[3] = bit 5, rd' = bits 4:2.
C12_Addi4spn ==
    (dec.kind # "none" /\ Quadrant(word) = 0 /\ Funct3(word) = 0)
    => LET nzuimm == 16 * Field(word, 11, 2) + 64 * Field(word, 7, 4)
                     + 4 * Field(word, 6, 1) + 8 * Field(word, 5, 1)
       IN IF Field(word, 5, 8) = 0
          THEN dec.kind = "illegal"
          ELSE /\ dec.kind = "ok"
               /\ dec.val = EncodeI(nzuimm, 2, 0, 8 + Field(word, 2, 3), \h13)

\* C12's case: c.addi4spn x10, sp, 20 (half-word 0x0848) has decompressed to
\* addi x10, x2, 20 = 0x01410513.
C12_Witness ==
    /\ word = \h0848
    /\ form = "c.addi4spn"
    /\ dec = [kind |-> "ok", val |-> <<\h0141, \h0513>>]

\* C13 (as claimed): every c.addi half-word (quadrant 1, funct3 = 0, not
\* 0x0001) decompresses to addi rd, rd, imm with rd = bits 11:7 and imm the
\* sign-extended 6-bit immediate in bits 31:20; 0x0001 (c.nop) decompresses to
\* 0x00000013.
C13_Addi ==
    (dec.kind # "none" /\ Quadrant(word) = 1 /\ Funct3(word) = 0)
    => /\ dec.kind = "ok"
       /\ dec.val = IF word = 1 THEN <<0, \h13>>
                    ELSE EncodeI(SignExtend6(Imm6(word), 12), RdField(word), 0,
                                 RdField(word), \h13)

\* The other XLEN.
OtherXlen == IF xlen = "X32" THEN "X64" ELSE "X32"

\* C14: the selected form depends on XLEN exactly in five places: quadrant 1
\* funct3 = 1 is c.jal (32) / c.addiw (64), quadrant 0 funct3 = 3 and 7 are
\* c.flw and c.fsw (32) / c.ld and c.sd (64), quadrant 2 funct3 = 3 and 7 are
\* c.flwsp and c.fswsp (32) / c.ldsp and c.sdsp (64); everywhere else the
\* selection for the half-word is the same under the other XLEN.
C14_XlenForms ==
    form # "none"
    => LET q == Quadrant(word)
           f == Funct3(word)
           By(f32, f64) == form = IF xlen = "X32" THEN f32 ELSE f64
       IN CASE q = 1 /\ f = 1 -> By("c.jal", "c.addiw")
            [] q = 0 /\ f = 3 -> By("c.flw", "c.ld")
            [] q = 0 /\ f = 7 -> By("c.fsw", "c.sd")
            [] q = 2 /\ f = 3 -> By("c.flwsp", "c.ldsp")
            [] q = 2 /\ f = 7 -> By("c.fswsp", "c.sdsp")
            [] OTHER -> form = instruction_decompress(OtherXlen, word).form

\* C14's case: half-word 0x6188 (quadrant 0, funct3 = 3) under XLEN = 64 has
\* selected c.ld, and selects c.flw under XLEN = 32.
C14_Witness ==
    /\ xlen = "X64"
    /\ word = \h6188
    /\ form = "c.ld"
    /\ instruction_decompress("X32", word).form = "c.flw"

\* C16 (as claimed): for a quadrant-1 half-word with funct3 = 3 the selected
\* form is c.addi16sp exactly when rd (bits 11:7) is 2, and c.lui otherwise.
C16_Addi16spSelected ==
    (form # "none" /\ Quadrant(word) = 1 /\ Funct3(word) = 3)
    => form = IF RdField(word) = 2 THEN "c.addi16sp" ELSE "c.lui"

\* C17: for a quadrant-2 half-word with funct3 = 4 the form is selected by
\* bit 12, rd and rs2: c.jr (bit 12 = 0, rs2 = 0), c.mv (bit 12 = 0, rs2 # 0),
\* c.ebreak (bit 12 = 1, rd = 0, rs2 = 0), c.jalr (bit 12 = 1, rd # 0,
\* rs2 = 0), c.add (bit 12 = 1, rs2 # 0); c.add decompresses to
\* add rd, rd, rs2 when rd # 0 and to the illegal-instruction error when
\* rd = 0.
C17_Quadrant2Funct4 ==
    (form # "none" /\ Quadrant(word) = 2 /\ Funct3(word) = 4)
    => LET b12 == Field(word, 12, 1)
           rd == RdField(word)
           rs2 == Rs2Field(word)
       IN /\ form = CASE b12 = 0 /\ rs2 = 0 -> "c.jr"
                      [] b12 = 0 /\ rs2 # 0 -> "c.mv"
                      [] b12 = 1 /\ rd = 0 /\ rs2 = 0 -> "c.ebreak"
                      [] b12 = 1 /\ rd # 0 /\ rs2 = 0 -> "c.jalr"
                      [] b12 = 1 /\ rs2 # 0 -> "c.add"
          /\ form = "c.add" =>
                IF rd = 0 THEN dec.kind = "illegal"
                ELSE dec.kind = "ok" /\ dec.val = EncodeR(rs2, rd, 0, rd, \h33)

\* C17's case: c.add x10, x11 (half-word 0x952E) has decompressed to
\* add x10, x10, x11 = 0x00B50533.
C17_Witness ==
    /\ word = \h952E
    /\ form = "c.add"
    /\ dec = [kind |-> "ok", val |-> <<\h00B5, \h0533>>]

\* The number of bytes of a device range of the memory map.
RegionSize(region) ==
    CASE region = "timer" -> 65536
      [] region = "intc" -> \h0400 * 65536
      [] region = "uart" -> 4096
      [] region = "virtio" -> 4096
      [] OTHER -> 0

\* The access starts in a device range and its last bytes lie past the range's
\* end: a 2-, 4- or 8-byte access in the last bytes of the UART range, or a
\* 64-bit access at the last 32-bit word of the timer, PLIC or virtio range.
Straddles ==
    /\ op.name \in Reads \cup Writes
    /\ \/ /\ MapRegion(op.addr) = "uart"
          /\ Width(op.name) >= 2
          /\ MapOffset(op.addr) + Width(op.name) > RegionSize("uart")
       \/ /\ MapRegion(op.addr) \in {"timer", "intc", "virtio"}
          /\ Width(op.name) = 8
          /\ MapOffset(op.addr) = RegionSize(MapRegion(op.addr)) - 4

\* C15 (as claimed): a multi-byte bus access whose bytes straddle a region
\* boundary returns an access fault and is not served by the device of its
\* first byte.
C15_StraddleFaults ==
    Straddles
    => /\ result.kind = "err"
       /\ \A i \in 1..Len(calls) : calls[i].dev # MapRegion(op.addr)

\* C18: run() returns only in test mode with a non-zero tohost: while test
\* mode is off, or tohost is 0 (load_program resolved no .tohost), the .tohost
\* cell is never read and run() has not returned, whatever the guest wrote.
C18_NoTohostNoReturn ==
    (~testmode \/ tohost = Addr(0, 0))
    => /\ reads = 0
       /\ phase \notin {"returned", "panicked"}
       /\ ret.kind = "none"

\* C18's case: test mode with tohost 0; the guest has stored 1 in the third
\* tick and run() is still looping without having read the cell.
C18_Witness ==
    /\ testmode
    /\ tohost = Addr(0, 0)
    /\ steps = 3
    /\ cell = 1
    /\ phase = "running"
    /\ reads = 0

====
